---------------------------- MODULE Spec2Model ----------------------------
(***************************************************************************)
(* QR attendance backend (src/app.py): three Flask handlers               *)
(* (generate_qr, mark_attendance, get_attendance) in front of a SQLite    *)
(* attendance table and a directory of QR images, behind a per-client     *)
(* rate limiter.                                                          *)
(*                                                                         *)
(* Strings the code inspects character by character (user_id, file paths) *)
(* are sequences of one-character strings; messages the code only passes  *)
(* around are TLA+ strings.                                               *)
(***************************************************************************)
EXTENDS Integers, Sequences, FiniteSets, TLC

VARIABLES
    table,            \* rows of the attendance table, in rowid order
    sqlite_sequence,  \* AUTOINCREMENT high-water mark of the table
    clock,            \* the store's CURRENT_TIMESTAMP, in seconds
    files,            \* the filesystem: path -> image written to it
    hits,             \* limiter storage: <<client, endpoint>> -> requests counted in the window
    unclosed,         \* connections no frame references any more, not yet finalized
    pc,               \* per request thread: "idle", "service", "responded"
    req,              \* per request thread: the request being handled
    resp,             \* per request thread: the response produced
    conn              \* per request thread: an open connection still referenced by the handler

vars == <<table, sqlite_sequence, clock, files, hits, unclosed, pc, req, resp, conn>>

-----------------------------------------------------------------------------
(* Bounds of the model *)

MaxRows == 2          \* rows the database file can hold before SQLITE_FULL
MaxClock == 1         \* seconds the clock advances
MaxOpenConns == 1     \* open database handles the process may hold (descriptor limit)
MaxStrLen == 5        \* length of the generated user_id strings
MAX_REQUESTS_PER_MINUTE == 1   \* Config.MAX_REQUESTS_PER_MINUTE (environment-driven)

(* Program constants *)

MaxUserIdLen == 50    \* validate_user_id: len(user_id) <= 50

Workers == {"w1", "w2"}
Clients == {"c1", "c2"}
Endpoints == {"generate_qr", "mark_attendance", "get_attendance"}

-----------------------------------------------------------------------------
(* Character strings *)

Str(n, ch) == [i \in 1..n |-> ch]

QR_CODES_DIR == <<"q", "r", "c", "o", "d", "e", "s">>
PngSuffix == <<".", "p", "n", "g">>

SetMin(S) == CHOOSE x \in S : \A y \in S : x <= y
SetMax(S) == CHOOSE x \in S : \A y \in S : x >= y

\* str.strip(): leading and trailing whitespace removed
Strip(s) ==
    LET keep == {i \in 1..Len(s) : s[i] # " "}
    IN  IF keep = {} THEN <<>> ELSE SubSeq(s, SetMin(keep), SetMax(keep))

\* str.split('/')
RECURSIVE SplitSlash(_)
SplitSlash(s) ==
    LET cut == {i \in 1..Len(s) : s[i] = "/"}
    IN  IF cut = {} THEN <<s>>
        ELSE <<SubSeq(s, 1, SetMin(cut) - 1)>>
                 \o SplitSlash(SubSeq(s, SetMin(cut) + 1, Len(s)))

\* '/'.join(comps)
RECURSIVE JoinSlash(_)
JoinSlash(comps) ==
    IF comps = <<>> THEN <<>>
    ELSE IF Len(comps) = 1 THEN comps[1]
    ELSE comps[1] \o <<"/">> \o JoinSlash(Tail(comps))

StartsWith(s, prefix) ==
    Len(s) >= Len(prefix) /\ SubSeq(s, 1, Len(prefix)) = prefix

DotDot == <<".", ".">>

\* the loop of posixpath.normpath over the split components
RECURSIVE NormComps(_, _, _)
NormComps(comps, new_comps, initial_slashes) ==
    IF comps = <<>> THEN new_comps
    ELSE LET comp == Head(comps)
             rest == Tail(comps)
         IN  IF comp = <<>> \/ comp = <<".">>
             THEN NormComps(rest, new_comps, initial_slashes)
             ELSE IF \/ comp # DotDot
                     \/ (initial_slashes = 0 /\ new_comps = <<>>)
                     \/ (new_comps # <<>> /\ new_comps[Len(new_comps)] = DotDot)
             THEN NormComps(rest, Append(new_comps, comp), initial_slashes)
             ELSE IF new_comps # <<>>
             THEN NormComps(rest, SubSeq(new_comps, 1, Len(new_comps) - 1), initial_slashes)
             ELSE NormComps(rest, new_comps, initial_slashes)

\* posixpath.normpath
NormPath(path) ==
    IF path = <<>> THEN <<".">>
    ELSE LET initial_slashes ==
                 IF ~StartsWith(path, <<"/">>) THEN 0
                 ELSE IF StartsWith(path, <<"/", "/">>) /\ ~StartsWith(path, <<"/", "/", "/">>)
                      THEN 2 ELSE 1
             joined == JoinSlash(NormComps(SplitSlash(path), <<>>, initial_slashes))
             out == Str(initial_slashes, "/") \o joined
         IN  IF out = <<>> THEN <<".">> ELSE out

-----------------------------------------------------------------------------
(* JSON values and request bodies *)

JNull == [type |-> "null", n |-> 0, s |-> <<>>]
JNum(k) == [type |-> "number", n |-> k, s |-> <<>>]
JStr(str) == [type |-> "string", n |-> 0, s |-> str]

\* the body as request.get_json() sees it
MalformedBody == [kind |-> "malformed", user_id |-> JNull]     \* not parseable as JSON
EmptyObject == [kind |-> "empty_object", user_id |-> JNull]    \* {}
ArrayBody == [kind |-> "array", user_id |-> JNull]             \* a non-empty JSON array
NoKeyObject == [kind |-> "object_other", user_id |-> JNull]    \* an object without "user_id"
Obj(v) == [kind |-> "object", user_id |-> v]                   \* {"user_id": v}
NoBody == [kind |-> "none", user_id |-> JNull]                 \* GET carries no body

NoClient == "none"
NoReq == [endpoint |-> "none", client |-> NoClient, body |-> NoBody]

\* Python truth value of a JSON value
Truthy(v) ==
    CASE v.type = "null" -> FALSE
      [] v.type = "number" -> v.n # 0
      [] OTHER -> v.s # <<>>

\* validate_user_id: bool(user_id and user_id.strip() and len(user_id) <= 50);
\* a truthy value without .strip() raises AttributeError
validate_user_id(user_id) ==
    IF ~Truthy(user_id) THEN "false"
    ELSE IF user_id.type # "string" THEN "raise"
    ELSE IF Strip(user_id.s) = <<>> THEN "false"
    ELSE IF Len(user_id.s) <= MaxUserIdLen THEN "true"
    ELSE "false"

-----------------------------------------------------------------------------
(* Responses *)

NoPath == <<>>

Response(status, error, message, qr_path, records) ==
    [status |-> status, error |-> error, message |-> message,
     qr_path |-> qr_path, records |-> records]

NoResp == Response(0, "", "", NoPath, <<>>)
ErrorResponse(status, error) == Response(status, error, "", NoPath, <<>>)

RateLimitExceeded == ErrorResponse(429, "Rate limit exceeded")
NoDataProvided == ErrorResponse(400, "No data provided")
InvalidUserId == ErrorResponse(400, "Invalid user ID")
InternalServerError == ErrorResponse(500, "Internal server error")

\* The part of a POST handler before the service call: the response it returns
\* without calling the service, or NoResp when it goes on to the service.
\*   request.get_json() raises BadRequest on a malformed body, data.get raises
\*   AttributeError on a JSON array, validate_user_id may raise: each is caught
\*   by "except Exception".
PostPrelude(body) ==
    CASE body.kind = "malformed" -> InternalServerError
      [] body.kind = "empty_object" -> NoDataProvided
      [] body.kind = "array" -> InternalServerError
      [] OTHER ->
           LET v == validate_user_id(body.user_id)
           IN  CASE v = "raise" -> InternalServerError
                 [] v = "false" -> InvalidUserId
                 [] OTHER -> NoResp

-----------------------------------------------------------------------------
(* werkzeug.security.safe_join and the generated file's path *)

\* f"{user_id}.png"
QrFileName(user_id) == user_id \o PngSuffix

\* os.path.join in place of safe_join: no check of the filename
safe_join_Unchecked(directory, untrusted) ==
    IF StartsWith(untrusted, <<"/">>) THEN untrusted
    ELSE directory \o <<"/">> \o untrusted

\* safe_join(directory, filename): None (NoPath) for a filename that is absolute
\* or whose normal form starts above the directory (on POSIX there is no
\* alternative separator to reject)
safe_join(directory, untrusted) ==
    LET filename == IF untrusted # <<>> THEN NormPath(untrusted) ELSE untrusted
    IN  IF \/ StartsWith(filename, <<"/">>)
           \/ filename = DotDot
           \/ StartsWith(filename, <<".", ".", "/">>)
        THEN NoPath
        ELSE directory \o <<"/">> \o filename

\* The directory a path's file lies in, resolved lexically from the working
\* directory: <<"abs">> for an absolute path, a leading ".." for every level
\* above the working directory.
RECURSIVE Resolve(_, _)
Resolve(comps, stack) ==
    IF comps = <<>> THEN stack
    ELSE LET comp == Head(comps)
         IN  IF comp = <<>> \/ comp = <<".">> THEN Resolve(Tail(comps), stack)
             ELSE IF comp = DotDot /\ stack # <<>> /\ stack[Len(stack)] # DotDot
             THEN Resolve(Tail(comps), SubSeq(stack, 1, Len(stack) - 1))
             ELSE Resolve(Tail(comps), Append(stack, comp))

ParentDir(path) ==
    LET comps == SplitSlash(path)
    IN  IF StartsWith(path, <<"/">>) THEN <<<<"abs">>>>
        ELSE Resolve(SubSeq(comps, 1, Len(comps) - 1), <<>>)

\* qr_image.save(path) opens the file for writing: the directory must exist.
\* QRCodeService.__init__ creates the output directory and nothing below it;
\* the directories outside it (the working directory, its ancestors, the root)
\* exist.
ParentExists(path) ==
    LET parent == ParentDir(path)
    IN  ~(Len(parent) > 1 /\ parent[1] = QR_CODES_DIR)

\* the image qr.add_data(user_id) / make_image produce
QrImage(user_id) == [payload |-> user_id, complete |-> TRUE]
\* what a failed save may leave at an existing path
Truncated == [payload |-> <<>>, complete |-> FALSE]

-----------------------------------------------------------------------------
(* QRCodeService *)

QRCodeFailed == ErrorResponse(500, "Failed to generate QR code")

\* a file that exists is kept and the new image written beside it
generate_qr_code_KeepOld(user_id, fs) ==
    LET qr_path == safe_join(QR_CODES_DIR, QrFileName(user_id))
        free == IF qr_path \in DOMAIN fs THEN qr_path \o <<".", "1">> ELSE qr_path
    IN  IF qr_path = NoPath \/ ~ParentExists(qr_path)
        THEN {[path |-> NoPath, fs |-> fs]}
        ELSE {[path |-> free, fs |-> (free :> QrImage(user_id)) @@ fs]}

\* QRCodeService.generate_qr_code on filesystem fs: the possible outcomes, each
\* the path returned (NoPath when QRCodeError is raised) and the filesystem left.
\*   "if qr_path: save; return" - a None path raises QRCodeError before any save;
\*   save raises when the file cannot be opened (fs unchanged) or when the write
\*   fails part-way (the file is left truncated).
generate_qr_code(user_id, fs) ==
    LET qr_path == safe_join(QR_CODES_DIR, QrFileName(user_id))
    IN  IF qr_path = NoPath
        THEN {[path |-> NoPath, fs |-> fs]}
        ELSE {[path |-> NoPath, fs |-> fs]}
             \cup (IF ParentExists(qr_path)
                   THEN {[path |-> qr_path, fs |-> (qr_path :> QrImage(user_id)) @@ fs],
                         [path |-> NoPath, fs |-> (qr_path :> Truncated) @@ fs]}
                   ELSE {})

-----------------------------------------------------------------------------
(* Database and AttendanceService *)

ConnectFailed == "Failed to connect to database"
MarkFailed == "Failed to mark attendance"
RetrieveFailed == "Failed to retrieve attendance records"

\* connections open in the process
OpenConns == unclosed + Cardinality({w \in Workers : conn[w]})

\* Database.get_connection succeeds only while the process can open a handle
CanConnect == OpenConns < MaxOpenConns

\* id INTEGER PRIMARY KEY AUTOINCREMENT
NextRowId(seq) == seq + 1

\* INSERT OR REPLACE on a unique user_id: the user's earlier row is replaced
InsertRow_Replace(rows, seq, now, user_id) ==
    Append(SelectSeq(rows, LAMBDA r : r.user_id # user_id),
           [id |-> NextRowId(seq), user_id |-> user_id,
            timestamp |-> now, created_at |-> now])

\* INSERT OR IGNORE on a unique user_id: a second check-in is dropped
InsertRow_Ignore(rows, seq, now, user_id) ==
    IF \E i \in 1..Len(rows) : rows[i].user_id = user_id
    THEN rows
    ELSE Append(rows, [id |-> NextRowId(seq), user_id |-> user_id,
                       timestamp |-> now, created_at |-> now])

\* INSERT INTO attendance (user_id) VALUES (?): id, timestamp and created_at
\* are the column defaults
InsertRow(rows, seq, now, user_id) ==
    Append(rows, [id |-> NextRowId(seq), user_id |-> user_id,
                  timestamp |-> now, created_at |-> now])

\* SELECT * FROM attendance ORDER BY timestamp DESC: the table is scanned in
\* rowid order and sorted on timestamp alone; rows of equal timestamp keep
\* their rowid order (SQLite's sorter).
RECURSIVE InsertByTimestampDesc(_, _)
InsertByTimestampDesc(sorted, row) ==
    IF sorted = <<>> THEN <<row>>
    ELSE IF Head(sorted).timestamp >= row.timestamp
         THEN <<Head(sorted)>> \o InsertByTimestampDesc(Tail(sorted), row)
         ELSE <<row>> \o sorted

RECURSIVE OrderByTimestampDesc(_)
OrderByTimestampDesc(rows) ==
    IF rows = <<>> THEN <<>>
    ELSE InsertByTimestampDesc(OrderByTimestampDesc(SubSeq(rows, 1, Len(rows) - 1)),
                               rows[Len(rows)])

\* AttendanceService.mark_attendance: the possible outcomes, each the message
\* of the DatabaseError raised ("" when none), the table and its id sequence
\* as left, and whether a connection was opened.  "with conn" commits the
\* INSERT, or rolls it back when the statement raises (the file is full, the
\* database is locked, the disk fails); it does not close the connection.
mark_attendance(user_id) ==
    IF ~CanConnect
    THEN {[raised |-> ConnectFailed, rows |-> table, seq |-> sqlite_sequence,
           opened |-> FALSE]}
    ELSE {[raised |-> MarkFailed, rows |-> table, seq |-> sqlite_sequence,
           opened |-> TRUE]}
         \cup (IF Len(table) < MaxRows
               THEN {[raised |-> "",
                      rows |-> InsertRow(table, sqlite_sequence, clock, user_id),
                      seq |-> NextRowId(sqlite_sequence), opened |-> TRUE]}
               ELSE {})

\* AttendanceService.get_attendance_records: the possible outcomes
get_attendance_records ==
    IF ~CanConnect
    THEN {[raised |-> ConnectFailed, records |-> <<>>, opened |-> FALSE]}
    ELSE {[raised |-> RetrieveFailed, records |-> <<>>, opened |-> TRUE],
          [raised |-> "", records |-> OrderByTimestampDesc(table), opened |-> TRUE]}

-----------------------------------------------------------------------------
(* The limiter *)

\* a limit of MAX_REQUESTS_PER_MINUTE per minute is declared on each route and
\* keyed by get_remote_address: one counter per client and route
LimitKey(client, endpoint) == <<client, endpoint>>

\* fixed window: a request is admitted while fewer than the limit are counted
WithinLimit(count) == count < MAX_REQUESTS_PER_MINUTE

\* every request is counted; the count is kept up to the limit, beyond which
\* every comparison with the limit gives the same answer
CountHit(count) == IF count < MAX_REQUESTS_PER_MINUTE THEN count + 1 ELSE count

-----------------------------------------------------------------------------
(* Initial state: the module has been imported (init_db has created the empty *)
(* table and its connection has been finalized since, QRCodeService has       *)
(* created the empty output directory)                                        *)

Init ==
    /\ table = <<>>
    /\ sqlite_sequence = 0
    /\ clock = 0
    /\ files = <<>>
    /\ hits = [k \in Clients \X Endpoints |-> 0]
    /\ unclosed = 0
    /\ pc = [w \in Workers |-> "idle"]
    /\ req = [w \in Workers |-> NoReq]
    /\ resp = [w \in Workers |-> NoResp]
    /\ conn = [w \in Workers |-> FALSE]

-----------------------------------------------------------------------------
(* Actions *)

Respond(w, r) ==
    /\ pc' = [pc EXCEPT ![w] = "responded"]
    /\ resp' = [resp EXCEPT ![w] = r]

\* A request arrives on thread w: the limiter, then the handler up to its
\* service call.
Receive(w, client, endpoint, body) ==
    /\ pc[w] = "idle"
    /\ req' = [req EXCEPT ![w] = [endpoint |-> endpoint, client |-> client, body |-> body]]
    /\ hits' = [hits EXCEPT ![LimitKey(client, endpoint)] = CountHit(@)]
    /\ IF ~WithinLimit(hits[LimitKey(client, endpoint)])
       THEN Respond(w, RateLimitExceeded)
       ELSE IF endpoint # "get_attendance" /\ PostPrelude(body) # NoResp
       THEN Respond(w, PostPrelude(body))
       ELSE /\ pc' = [pc EXCEPT ![w] = "service"]
            /\ resp' = resp
    /\ UNCHANGED <<table, sqlite_sequence, clock, files, unclosed, conn>>

\* generate_qr from its service call to its return; the save of the small
\* image is one write
ServiceGenerate(w) ==
    /\ pc[w] = "service"
    /\ req[w].endpoint = "generate_qr"
    /\ \E out \in generate_qr_code(req[w].body.user_id.s, files) :
          /\ files' = out.fs
          /\ Respond(w, IF out.path = NoPath THEN QRCodeFailed
                        ELSE Response(200, "", "QR Code generated successfully",
                                      out.path, <<>>))
    /\ UNCHANGED <<table, sqlite_sequence, clock, hits, unclosed, req, conn>>

\* mark_attendance from its service call to its return.  After a successful
\* call no frame references the connection; after a failed one the traceback
\* of the exception the handler holds still does.
ServiceMark(w) ==
    /\ pc[w] = "service"
    /\ req[w].endpoint = "mark_attendance"
    /\ \E out \in mark_attendance(req[w].body.user_id.s) :
          /\ table' = out.rows
          /\ sqlite_sequence' = out.seq
          /\ unclosed' = IF out.opened /\ out.raised = "" THEN unclosed + 1 ELSE unclosed
          /\ conn' = [conn EXCEPT ![w] = out.opened /\ out.raised # ""]
          /\ Respond(w, IF out.raised # "" THEN ErrorResponse(500, out.raised)
                        ELSE Response(200, "", "Attendance marked successfully",
                                      NoPath, <<>>))
    /\ UNCHANGED <<clock, files, hits, req>>

\* get_attendance from its service call to its return
ServiceGet(w) ==
    /\ pc[w] = "service"
    /\ req[w].endpoint = "get_attendance"
    /\ \E out \in get_attendance_records :
          /\ unclosed' = IF out.opened /\ out.raised = "" THEN unclosed + 1 ELSE unclosed
          /\ conn' = [conn EXCEPT ![w] = out.opened /\ out.raised # ""]
          /\ Respond(w, IF out.raised # "" THEN ErrorResponse(500, out.raised)
                        ELSE Response(200, "", "", NoPath, out.records))
    /\ UNCHANGED <<table, sqlite_sequence, clock, files, hits, req>>

\* The response is sent and the handler's frames are dropped.
Return(w) ==
    /\ pc[w] = "responded"
    /\ pc' = [pc EXCEPT ![w] = "idle"]
    /\ req' = [req EXCEPT ![w] = NoReq]
    /\ resp' = [resp EXCEPT ![w] = NoResp]
    /\ conn' = [conn EXCEPT ![w] = FALSE]
    /\ unclosed' = IF conn[w] THEN unclosed + 1 ELSE unclosed
    /\ UNCHANGED <<table, sqlite_sequence, clock, files, hits>>

\* The interpreter finalizes an unreferenced connection, which closes it.
Finalize ==
    /\ unclosed > 0
    /\ unclosed' = unclosed - 1
    /\ UNCHANGED <<table, sqlite_sequence, clock, files, hits, pc, req, resp, conn>>

\* A second passes.
Tick ==
    /\ clock < MaxClock
    /\ clock' = clock + 1
    /\ UNCHANGED <<table, sqlite_sequence, files, hits, unclosed, pc, req, resp, conn>>

\* The minute of one limiter counter ends.
WindowExpire(client, endpoint) ==
    /\ hits[LimitKey(client, endpoint)] > 0
    /\ hits' = [hits EXCEPT ![LimitKey(client, endpoint)] = 0]
    /\ UNCHANGED <<table, sqlite_sequence, clock, files, unclosed, pc, req, resp, conn>>

-----------------------------------------------------------------------------
(* Requests the environment sends *)

LongUserId == Str(MaxUserIdLen + 1, "a")

A == <<"a">>
DotSlashA == <<".", "/", "a">>
Traversal == <<".", ".", "/", "a">>

B == <<"b">>

SubDir == <<"a", "/", "b">>

Get == [endpoint |-> "get_attendance", body |-> NoBody]
Post(endpoint, bodies) == [endpoint : {endpoint}, body : bodies]

\* every kind of body, on both POST routes, and the GET
Bodies ==
    {MalformedBody, EmptyObject, ArrayBody, NoKeyObject, Obj(JNull), Obj(JNum(0)),
     Obj(JNum(123)), Obj(JStr(<<>>)), Obj(JStr(<<" ">>)), Obj(JStr(LongUserId)),
     Obj(JStr(A)), Obj(JStr(DotSlashA)), Obj(JStr(Traversal))}

Requests == {Get} \cup Post("generate_qr", Bodies) \cup Post("mark_attendance", Bodies)

\* The whole system, one client sending one request at a time.
Next ==
    \/ \E r \in Requests : Receive("w1", "c1", r.endpoint, r.body)
    \/ ServiceGenerate("w1")
    \/ ServiceMark("w1")
    \/ ServiceGet("w1")
    \/ Return("w1")
    \/ Finalize
    \/ Tick
    \/ \E e \in Endpoints : WindowExpire("c1", e)

Spec == Init /\ [][Next]_vars

\* The attendance routes under concurrent requests.
StoreRequests == {Get} \cup Post("mark_attendance", {Obj(JStr(A)), Obj(JStr(B))})

NextStore ==
    \/ \E w \in Workers, r \in StoreRequests : Receive(w, "c1", r.endpoint, r.body)
    \/ \E w \in Workers : ServiceMark(w)
    \/ \E w \in Workers : ServiceGet(w)
    \/ \E w \in Workers : Return(w)
    \/ Finalize
    \/ Tick
    \/ \E e \in {"mark_attendance", "get_attendance"} : WindowExpire("c1", e)

SpecStore == Init /\ [][NextStore]_vars

\* The generate route under concurrent requests.
GenRequests ==
    Post("generate_qr", {Obj(JStr(A)), Obj(JStr(B)), Obj(JStr(DotSlashA)),
                         Obj(JStr(Traversal)), Obj(JStr(SubDir))})

NextGen ==
    \/ \E w \in Workers, r \in GenRequests : Receive(w, "c1", r.endpoint, r.body)
    \/ \E w \in Workers : ServiceGenerate(w)
    \/ \E w \in Workers : Return(w)
    \/ WindowExpire("c1", "generate_qr")

SpecGen == Init /\ [][NextGen]_vars

\* The limiter: two clients on the three routes.
LimiterRequests ==
    {Get} \cup Post("generate_qr", {Obj(JStr(A))}) \cup Post("mark_attendance", {Obj(JStr(A))})

NextLimiter ==
    \/ \E c \in Clients, r \in LimiterRequests : Receive("w1", c, r.endpoint, r.body)
    \/ ServiceGenerate("w1")
    \/ ServiceMark("w1")
    \/ ServiceGet("w1")
    \/ Return("w1")
    \/ Finalize
    \/ \E c \in Clients, e \in Endpoints : WindowExpire(c, e)

SpecLimiter == Init /\ [][NextLimiter]_vars

\* generate_qr_code on every valid user_id of up to MaxStrLen characters: the
\* state after one client's request has passed the limiter and validation.
Alphabet == {"a", ".", "/", " "}

Strings(n) == UNION {[1..k -> Alphabet] : k \in 0..n}

InitPath ==
    /\ table = <<>>
    /\ sqlite_sequence = 0
    /\ clock = 0
    /\ files = <<>>
    /\ hits = [k \in Clients \X Endpoints |->
                 IF k = LimitKey("c1", "generate_qr") THEN CountHit(0) ELSE 0]
    /\ unclosed = 0
    /\ \E s \in Strings(MaxStrLen) :
          /\ validate_user_id(JStr(s)) = "true"
          /\ req = [w \in Workers |->
                      IF w = "w1"
                      THEN [endpoint |-> "generate_qr", client |-> "c1", body |-> Obj(JStr(s))]
                      ELSE NoReq]
    /\ pc = [w \in Workers |-> IF w = "w1" THEN "service" ELSE "idle"]
    /\ resp = [w \in Workers |-> NoResp]
    /\ conn = [w \in Workers |-> FALSE]

NextPath ==
    \/ ServiceGenerate("w1")
    \/ Return("w1")

SpecPath == InitPath /\ [][NextPath]_vars

-----------------------------------------------------------------------------
(* Properties *)

PostEndpoints == {"generate_qr", "mark_attendance"}

\* the validation rule of the specification: non-null text whose trimmed form
\* is non-empty and whose untrimmed length is at most 50
ValidByRule(v) ==
    /\ v.type = "string"
    /\ Strip(v.s) # <<>>
    /\ Len(v.s) <= MaxUserIdLen

\* a body that parses as an object and carries no valid user_id
HasInvalidUserId(body) ==
    /\ body.kind \in {"empty_object", "object_other", "object"}
    /\ ~ValidByRule(body.user_id)

Responded(w, endpoint) == pc[w] = "responded" /\ req[w].endpoint = endpoint

\* C1: a POST whose user_id is invalid is answered 400 with an error message,
\* and the table and the output directory are left as they were.
C1_InvalidUserIdRejected ==
    [][\A w \in Workers :
          ( /\ pc[w] = "idle"
            /\ pc'[w] # "idle"
            /\ req'[w].endpoint \in PostEndpoints
            /\ HasInvalidUserId(req'[w].body)
            /\ resp'[w] # RateLimitExceeded )
          => ( /\ pc'[w] = "responded"
               /\ resp'[w].status = 400
               /\ resp'[w].error # ""
               /\ table' = table
               /\ files' = files )]_vars

\* C2: the list returned holds the rows in the order latest-inserted first,
\* also among rows of one timestamp.
C2_LaterInsertedFirst ==
    \A w \in Workers :
        (Responded(w, "get_attendance") /\ resp[w].status = 200)
        => LET records == resp[w].records
           IN  /\ Len(records) <= Len(table)
               /\ \A i \in 1..Len(records) : \E j \in 1..Len(records) : table[i] = records[j]
               /\ \A i, j \in 1..Len(records) : i < j => records[i].id > records[j].id

\* the raw file name leaves the directory it is joined to: it is absolute, or
\* walking its components steps above the starting directory
RECURSIVE StepsAbove(_, _)
StepsAbove(comps, depth) ==
    IF comps = <<>> THEN FALSE
    ELSE LET comp == Head(comps)
         IN  IF comp = <<>> \/ comp = <<".">> THEN StepsAbove(Tail(comps), depth)
             ELSE IF comp = DotDot
             THEN depth = 0 \/ StepsAbove(Tail(comps), depth - 1)
             ELSE StepsAbove(Tail(comps), depth + 1)

Escapes(user_id) ==
    LET name == user_id \o PngSuffix
    IN  StartsWith(name, <<"/">>) \/ StepsAbove(SplitSlash(name), 0)

InsideOutputDir(path) ==
    LET parent == ParentDir(path)
    IN  Len(parent) >= 1 /\ parent[1] = QR_CODES_DIR

\* C3: no file lies outside the output directory, and generate on a user_id
\* that leaves the directory fails with the QR code error and writes nothing.
C3_NoEscape ==
    /\ \A path \in DOMAIN files : InsideOutputDir(path)
    /\ \A w \in Workers :
          (Responded(w, "generate_qr") /\ Escapes(req[w].body.user_id.s))
          => (resp[w] = QRCodeFailed /\ files = <<>>)

C3_Witness ==
    /\ Responded("w1", "generate_qr")
    /\ req["w1"].body.user_id.s = Traversal
    /\ Escapes(Traversal)
    /\ resp["w1"] = QRCodeFailed
    /\ files = <<>>

\* requests of a client counted in the limiter's current windows
ClientHits(client) ==
    hits[LimitKey(client, "generate_qr")] + hits[LimitKey(client, "mark_attendance")]
        + hits[LimitKey(client, "get_attendance")]

\* C4: a request of a client that has made the per-minute cap of requests in
\* the window is answered 429 and does no service work.
C4_CapPerClient ==
    [][\A w \in Workers :
          ( /\ pc[w] = "idle"
            /\ pc'[w] # "idle"
            /\ ClientHits(req'[w].client) >= MAX_REQUESTS_PER_MINUTE )
          => ( /\ pc'[w] = "responded"
               /\ resp'[w] = RateLimitExceeded
               /\ table' = table
               /\ files' = files )]_vars

IdsDistinct == \A i, j \in 1..Len(table) : i # j => table[i].id # table[j].id

\* C5: the table is append-only: every row stays as it is, ids are pairwise
\* distinct, and a new row's id is greater than every id before it.
C5_AppendOnly ==
    /\ []IdsDistinct
    /\ [][ /\ Len(table') >= Len(table)
           /\ SubSeq(table', 1, Len(table)) = table
           /\ \A i \in (Len(table) + 1)..Len(table') :
                 /\ table'[i].id > sqlite_sequence
                 /\ \A j \in 1..Len(table) : table'[i].id > table[j].id ]_vars

C5_Witness ==
    /\ Len(table) >= 2
    /\ table[2].id > table[1].id
    /\ table[1].user_id = table[2].user_id
    /\ \E w \in Workers : Responded(w, "mark_attendance") /\ resp[w].status = 200

\* C6: a response is ready only after the connection the call opened is
\* closed, and between requests no connection is open.
C6_ConnectionsReleased ==
    /\ \A w \in Workers : pc[w] = "responded" => ~conn[w]
    /\ (\A w \in Workers : pc[w] = "idle") => OpenConns = 0

\* the mark calls that return successfully in this step
MarksSucceeding ==
    {w \in Workers : /\ pc[w] = "service"
                     /\ req[w].endpoint = "mark_attendance"
                     /\ pc'[w] = "responded"
                     /\ resp'[w].status = 200}

\* C7: every successful mark adds exactly one row, and nothing else changes
\* the number of rows.
C7_EveryMarkAddsOneRow ==
    [][Len(table') = Len(table) + Cardinality(MarksSucceeding)]_vars

\* two check-ins of one user, the second just answered, no QR code generated
C7_Witness ==
    /\ Len(table) >= 2
    /\ table[1].user_id = A
    /\ table[2].user_id = A
    /\ files = <<>>
    /\ \E w \in Workers :
          /\ Responded(w, "mark_attendance")
          /\ req[w].body.user_id.s = A
          /\ resp[w].status = 200

ArtifactsOf(fs, user_id) ==
    {path \in DOMAIN fs : fs[path].complete /\ fs[path].payload = user_id}

\* the generate calls that return successfully in this step
GeneratesSucceeding ==
    {w \in Workers : /\ pc[w] = "service"
                     /\ req[w].endpoint = "generate_qr"
                     /\ pc'[w] = "responded"
                     /\ resp'[w].status = 200}

\* C8: the directory holds at most one artifact per user_id; a successful
\* generate leaves exactly one, at the path it returns, and when the user_id's
\* artifact was there already the directory is left as it was.
C8_OneArtifactPerUser ==
    /\ [](\A path \in DOMAIN files : Cardinality(ArtifactsOf(files, files[path].payload)) <= 1)
    /\ [][\A w \in GeneratesSucceeding :
             LET user_id == req[w].body.user_id.s
             IN  /\ ArtifactsOf(files', user_id) = {resp'[w].qr_path}
                 /\ ArtifactsOf(files, user_id) # {} => files' = files]_vars

\* both threads have just generated the code of the same user
C8_Witness ==
    /\ \A w \in Workers :
          /\ Responded(w, "generate_qr")
          /\ req[w].body.user_id.s = A
          /\ resp[w].status = 200
    /\ ArtifactsOf(files, A) = {QR_CODES_DIR \o <<"/">> \o A \o PngSuffix}
    /\ DOMAIN files = ArtifactsOf(files, A)

\* C9: a successful generate returns <output_dir>/<user_id>.png, and the file
\* at that path encodes the raw user_id.
C9_PathAndPayload ==
    \A w \in Workers :
        (Responded(w, "generate_qr") /\ resp[w].status = 200)
        => LET user_id == req[w].body.user_id.s
               path == QR_CODES_DIR \o <<"/">> \o user_id \o PngSuffix
           IN  /\ resp[w].qr_path = path
               /\ path \in DOMAIN files
               /\ files[path] = QrImage(user_id)

ServiceErrors(endpoint) ==
    CASE endpoint = "generate_qr" -> {"Failed to generate QR code"}
      [] OTHER -> {"Failed to connect to database", "Failed to mark attendance",
                   "Failed to retrieve attendance records"}

\* C10: a 500 carries the service error's fixed message or the generic one,
\* and a body that cannot be parsed is answered 400.
C10_FailuresMapped ==
    \A w \in Workers :
        pc[w] = "responded" =>
            /\ resp[w].status = 500 =>
                  resp[w].error \in ServiceErrors(req[w].endpoint) \cup {"Internal server error"}
            /\ (req[w].body.kind = "malformed" /\ resp[w] # RateLimitExceeded)
                  => resp[w].status = 400

=============================================================================
